---- MODULE Spec2Model ----
(***************************************************************************)
(* Model of CosmicArchive's checker (src/src/main.rs): the orchestrator    *)
(* main, the manifest fetch get_version_hashes, the discovery              *)
(* get_game_jars, the retrieval task download_game_jars and the digest     *)
(* comparator is_version_unarchived.                                       *)
(*                                                                         *)
(* Strings are tuples of one-character strings, paths are sequences of     *)
(* components (PathBuf on a Unix build: separator "/"), file contents are  *)
(* sequences of bytes.                                                     *)
(***************************************************************************)
EXTENDS Naturals, Integers, Sequences, FiniteSets, TLC

VARIABLES
    main_pc,          \* position of main: "try_join", "join_next", "done"
    exit_code,        \* Some of the exit status once main has returned
    manifest,         \* the get_version_hashes future: "pending", "ok", "err", "dropped"
    manifest_body,    \* Some of the response body the manifest GET delivered
    archived_hashes,  \* main's archived_hashes
    discovery,        \* the get_game_jars future: "pending", "ok", "err", "dropped"
    game_page,        \* downloads of the game page the storefront delivered
    tasks,            \* the JoinSet: one record per spawned download_game_jars task
    ready,            \* indices of finished tasks, in completion order, not yet joined
    fs,               \* the working directory: [dirs, files]
    hasher,           \* bytes absorbed by main's sha2::Sha256 since its last reset
    paths,            \* main's paths vector
    stdout,           \* writes made to standard output, in order
    stderr,           \* error-level log records (env_logger's default filter)
    calls,            \* history: one record per is_version_unarchived call
    trail             \* a value and the results of the Sha256Hash conversions
                      \* applied to it, one after the other

vars == <<main_pc, exit_code, manifest, manifest_body, archived_hashes, discovery,
          game_page, tasks, ready, fs, hasher, paths, stdout, stderr, calls, trail>>

\* Option<T>: the empty sequence, or the sequence of the one value
NoneOpt == <<>>
Some(x) == <<x>>
IsSome(o) == o # <<>>
Unwrap(o) == o[1]

---------------------------------------------------------------------------
(* Bounds of the model *)

\* downloads listed on the game page
MaxDownloads == 2
\* entries of a downloaded archive in the retrieval specification
MaxEntries == 2

---------------------------------------------------------------------------
(* Strings *)

Prefix == <<"C","o","s","m","i","c"," ","R","e","a","c","h","-">>
Jar == <<"j","a","r">>

Upper == <<"A","B","C","D","E","F","G","H","I","J","K","L","M",
           "N","O","P","Q","R","S","T","U","V","W","X","Y","Z">>
Lower == <<"a","b","c","d","e","f","g","h","i","j","k","l","m",
           "n","o","p","q","r","s","t","u","v","w","x","y","z">>

\* u8::to_ascii_lowercase
ToAsciiLowercase(c) ==
    IF \E i \in 1..Len(Upper) : Upper[i] = c
    THEN Lower[CHOOSE i \in 1..Len(Upper) : Upper[i] = c]
    ELSE c

\* OsStr::eq_ignore_ascii_case
EqIgnoreAsciiCase(a, b) ==
    /\ Len(a) = Len(b)
    /\ \A i \in 1..Len(a) : ToAsciiLowercase(a[i]) = ToAsciiLowercase(b[i])

\* str::starts_with
StartsWith(s, p) ==
    /\ Len(s) >= Len(p)
    /\ SubSeq(s, 1, Len(p)) = p

\* positions of character c in s
Positions(s, c) == {i \in 1..Len(s) : s[i] = c}

Max(S) == CHOOSE x \in S : \A y \in S : y <= x
Min(S) == CHOOSE x \in S : \A y \in S : x <= y

Digits == <<"0","1","2","3","4","5","6","7","8","9">>

\* u64::to_string
RECURSIVE to_string(_)
to_string(n) ==
    IF n < 10 THEN <<Digits[n + 1]>>
    ELSE to_string(n \div 10) \o <<Digits[(n % 10) + 1]>>

---------------------------------------------------------------------------
(* Paths: zip's ZipFile::mangled_name and std::path on a Unix build *)

Nul == "NUL"

\* the name up to its first NUL character
TruncateAtNul(s) ==
    IF Positions(s, Nul) = {} THEN s ELSE SubSeq(s, 1, Min(Positions(s, Nul)) - 1)

\* the opposite separator "\" becomes the main separator "/"
ReplaceSeparator(s) == [i \in 1..Len(s) |-> IF s[i] = "\\" THEN "/" ELSE s[i]]

\* the segments of s between "/" characters
RECURSIVE SplitAtSeparator(_)
SplitAtSeparator(s) ==
    IF Positions(s, "/") = {} THEN <<s>>
    ELSE LET i == Min(Positions(s, "/"))
         IN  <<SubSeq(s, 1, i - 1)>> \o SplitAtSeparator(SubSeq(s, i + 1, Len(s)))

Dot == <<".">>
DotDot == <<".", ".">>

\* Component::Normal: neither empty (root, repeated separator), "." nor ".."
IsNormalComponent(c) == c # <<>> /\ c # Dot /\ c # DotDot

\* mangled_name keeping every segment of the name
mangled_name_unsanitized(name) ==
    SplitAtSeparator(ReplaceSeparator(TruncateAtNul(name)))

\* ZipFile::mangled_name: the Normal components of the name, pushed in order
mangled_name(name) ==
    SelectSeq(SplitAtSeparator(ReplaceSeparator(TruncateAtNul(name))), IsNormalComponent)

\* Path::file_name of a path made of Normal components
file_name(path) == IF path = <<>> THEN NoneOpt ELSE Some(path[Len(path)])

\* Path::extension: what follows the last "." of the file name, unless the
\* name has no "." or only a leading one
extension(path) ==
    IF ~IsSome(file_name(path)) THEN NoneOpt
    ELSE LET f == Unwrap(file_name(path))
         IN  IF Positions(f, ".") = {} THEN NoneOpt
             ELSE LET i == Max(Positions(f, "."))
                  IN  IF i = 1 THEN NoneOpt ELSE Some(SubSeq(f, i + 1, Len(f)))

\* Path::display: the components joined by "/"
RECURSIVE display(_)
display(path) ==
    IF path = <<>> THEN <<>>
    ELSE IF Len(path) = 1 THEN path[1]
    ELSE path[1] \o <<"/">> \o display(Tail(path))

\* Path::join: an absolute path (one that starts at the root, its first
\* segment empty) replaces the base
join(base, path) == IF path # <<>> /\ path[1] = <<>> THEN path ELSE base \o path

\* is_game_jar comparing the extension exactly
is_game_jar_exact_case(relative_path) ==
    /\ IsSome(file_name(relative_path))
    /\ StartsWith(Unwrap(file_name(relative_path)), Prefix)
    /\ extension(relative_path) = Some(Jar)

\* the test guarding the extraction branch of download_game_jars
is_game_jar(relative_path) ==
    /\ IsSome(file_name(relative_path))
    /\ StartsWith(Unwrap(file_name(relative_path)), Prefix)
    /\ IsSome(extension(relative_path))
    /\ EqIgnoreAsciiCase(Unwrap(extension(relative_path)), Jar)

---------------------------------------------------------------------------
(* The working directory *)

\* A location is a sequence of components from the working directory <<>>:
\* names below it, ".." components for the directories above it, or Root
\* followed by names. f.dirs and the domain of f.files hold locations.
EmptyFs == [dirs |-> {}, files |-> <<>>]

Root == <<"/">>

Above(at) == at # <<>> /\ \A k \in DOMAIN at : at[k] = DotDot

\* the working directory, the directories above it and the root exist
IsDir(f, at) == at = <<>> \/ at = <<Root>> \/ Above(at) \/ at \in f.dirs

\* the operating system walks the path from its k-th component on, having
\* reached the location at; NoneOpt when a component is looked up in
\* something that is no directory
RECURSIVE Walk(_, _, _, _)
Walk(f, path, k, at) ==
    IF k > Len(path) \/ ~IsSome(at) THEN at
    ELSE
    LET c == path[k]
        cur == Unwrap(at)
    IN  IF c = <<>> THEN Walk(f, path, k + 1, IF k = 1 THEN Some(<<Root>>) ELSE at)
        ELSE IF c = Dot THEN Walk(f, path, k + 1, at)
        ELSE IF ~IsDir(f, cur) THEN NoneOpt
        ELSE IF c = DotDot
        THEN Walk(f, path, k + 1,
                  Some(IF cur = <<>> \/ Above(cur) THEN Append(cur, DotDot)
                       ELSE IF cur = <<Root>> THEN cur
                       ELSE SubSeq(cur, 1, Len(cur) - 1)))
        ELSE Walk(f, path, k + 1, Some(Append(cur, c)))

\* the location a path names
Resolve(f, path) == Walk(f, path, 1, Some(<<>>))

Exists(f, path) ==
    /\ IsSome(Resolve(f, path))
    /\ \/ IsDir(f, Unwrap(Resolve(f, path)))
       \/ Unwrap(Resolve(f, path)) \in DOMAIN f.files

IsFile(f, path) ==
    IsSome(Resolve(f, path)) /\ Unwrap(Resolve(f, path)) \in DOMAIN f.files

ReadFile(f, path) == f.files[Unwrap(Resolve(f, path))]

\* File::create succeeds where the path resolves to no directory
CanCreateFile(f, path) ==
    IsSome(Resolve(f, path)) /\ ~IsDir(f, Unwrap(Resolve(f, path)))

\* the file at the location at holds data
WriteFile(f, at, data) ==
    [f EXCEPT !.files = [p \in DOMAIN f.files \cup {at} |->
                            IF p = at THEN data ELSE f.files[p]]]

---------------------------------------------------------------------------
(* download_game_jars: the entries of the opened archive *)

EntryOutcomes == {"ok", "by_index_err", "create_err", "copy_err"}

\* what an interrupted std::io::copy leaves in the destination file
Partial(data) == SubSeq(data, 1, Len(data) - 1)

\* the filter_map closure applied to entries k..len, threading the state
\* acc = [files, fs, selected, extracted, failed, refused, written, log];
\* refused holds the entries whose File::create found no directory to create
\* the file in, or a directory in the file's place
RECURSIVE extract_entries(_, _, _, _, _)
extract_entries(path, archive, io, k, acc) ==
    IF k > Len(archive) THEN acc
    ELSE
    LET relative_path == mangled_name(archive[k].name)
        extracted_path == join(path, relative_path)
        at == Unwrap(Resolve(acc.fs, extracted_path))
        accessed == [acc EXCEPT !.log = @ \cup {"Accessing archived file"}]
        step ==
            IF io[k] = "by_index_err"
            THEN [accessed EXCEPT !.failed = @ \cup {k},
                                  !.log = @ \cup {"Unable to access archived file"}]
            ELSE IF ~is_game_jar(relative_path) THEN accessed
            ELSE IF io[k] = "create_err" \/ ~CanCreateFile(acc.fs, extracted_path)
            THEN [accessed EXCEPT !.selected = @ \cup {k},
                                  !.failed = @ \cup {k},
                                  !.refused = IF CanCreateFile(acc.fs, extracted_path)
                                              THEN @ ELSE @ \cup {k},
                                  !.log = @ \cup {"Failed to create destination game jar file"}]
            ELSE IF io[k] = "copy_err"
            THEN [accessed EXCEPT !.selected = @ \cup {k},
                                  !.failed = @ \cup {k},
                                  !.fs = WriteFile(@, at, Partial(archive[k].data)),
                                  !.written = @ \cup {at},
                                  !.log = @ \cup {"Failed to extract game jar file"}]
            ELSE [accessed EXCEPT !.selected = @ \cup {k},
                                  !.extracted = @ \cup {k},
                                  !.fs = WriteFile(@, at, archive[k].data),
                                  !.written = @ \cup {at},
                                  !.files = Append(@, extracted_path)]
    IN  extract_entries(path, archive, io, k + 1, step)

NetOutcomes == {"ok", "info_err", "send_err", "status_err", "bytes_err"}

NetErrorLog(net) ==
    CASE net = "info_err" -> {"Failed getting download info"}
      [] net = "send_err" -> {"Failed to send GET request to download url"}
      [] net = "status_err" -> {"Non-success GET response status"}
      [] net = "bytes_err" -> {"Failed to read bytes from GET response"}
      [] OTHER -> {}

\* a response body: the entries of a ZIP archive, or bytes that are none
Zip(entries) == [zip |-> TRUE, entries |-> entries]
NotZip == [zip |-> FALSE, entries |-> <<>>]

\* the result of a task that stops before the entries are enumerated
TaskFailure(f, log) ==
    [ret |-> "Err", files |-> <<>>, fs |-> f, selected |-> {}, extracted |-> {},
     failed |-> {}, refused |-> {}, written |-> {}, log |-> log]

\* download_game_jars failing as a whole when one entry failed
download_game_jars_all_or_nothing(download_id, net, mkdir, body, io, f) ==
    IF net # "ok" THEN TaskFailure(f, NetErrorLog(net))
    ELSE
    LET path == <<to_string(download_id)>>
        made == IF Exists(f, path) THEN f ELSE [f EXCEPT !.dirs = @ \cup {path}]
    IN  IF ~Exists(f, path) /\ mkdir # "ok"
        THEN TaskFailure(f, {"Failed to create destination folder for extraction"})
        ELSE IF ~body.zip
        THEN [TaskFailure(made, {"Failed to read bytes as zip archive"})
                 EXCEPT !.written = made.dirs \ f.dirs]
        ELSE LET acc == extract_entries(path, body.entries, io, 1,
                            [files |-> <<>>, fs |-> made, selected |-> {},
                             extracted |-> {}, failed |-> {}, refused |-> {},
                             written |-> made.dirs \ f.dirs, log |-> {}])
             IN  [ret |-> IF acc.failed = {} THEN "Ok" ELSE "Err",
                  files |-> IF acc.failed = {} THEN acc.files ELSE <<>>,
                  fs |-> acc.fs,
                  selected |-> acc.selected, extracted |-> acc.extracted,
                  failed |-> acc.failed, refused |-> acc.refused,
                  written |-> acc.written, log |-> acc.log]

\* download_game_jars(client, download_id) in the working directory f:
\*   net     outcome of resolving the URL, sending the GET and reading the body
\*   mkdir   outcome of create_dir when nothing exists at the path
\*   body    the response body: NotZip, or Zip of the entries [name, data]
\*   io      outcome of the I/O of each entry
download_game_jars(download_id, net, mkdir, body, io, f) ==
    IF net # "ok" THEN TaskFailure(f, NetErrorLog(net))
    ELSE
    LET path == <<to_string(download_id)>>
        made == IF Exists(f, path) THEN f ELSE [f EXCEPT !.dirs = @ \cup {path}]
    IN  IF ~Exists(f, path) /\ mkdir # "ok"
        THEN TaskFailure(f, {"Failed to create destination folder for extraction"})
        ELSE IF ~body.zip
        THEN [TaskFailure(made, {"Failed to read bytes as zip archive"})
                 EXCEPT !.written = made.dirs \ f.dirs]
        ELSE LET acc == extract_entries(path, body.entries, io, 1,
                            [files |-> <<>>, fs |-> made, selected |-> {},
                             extracted |-> {}, failed |-> {}, refused |-> {},
                             written |-> made.dirs \ f.dirs, log |-> {}])
             IN  [ret |-> "Ok", files |-> acc.files, fs |-> acc.fs,
                  selected |-> acc.selected, extracted |-> acc.extracted,
                  failed |-> acc.failed, refused |-> acc.refused,
                  written |-> acc.written, log |-> acc.log]

---------------------------------------------------------------------------
(* Digests *)

\* SHA-256 as a collision-free function of the absorbed bytes
RECURSIVE Sha256(_)
Sha256(bytes) ==
    IF bytes = <<>> THEN 0
    ELSE Sha256(SubSeq(bytes, 1, Len(bytes) - 1)) * 257 + bytes[Len(bytes)] + 1

\* contains with the test inverted
contains_negated(set, hash) == hash \notin set

\* HashSet::contains
contains(set, hash) == hash \in set

\* is_version_unarchived taking a file it cannot open for an unarchived one
is_version_unarchived_unreadable_is_new(archived, h, path, f, open, read) ==
    IF open # "ok" \/ ~IsFile(f, path)
    THEN [ret |-> TRUE, hasher |-> h, hash |-> NoneOpt,
          log |-> {"Failed to open file for hash calculations"}]
    ELSE IF IsSome(read)
    THEN [ret |-> FALSE, hasher |-> h \o SubSeq(ReadFile(f, path), 1, Unwrap(read)),
          hash |-> NoneOpt,
          log |-> {"Failed to calculate sha256 hash"}]
    ELSE LET hash == Sha256(h \o ReadFile(f, path))
         IN  [ret |-> ~contains(archived, hash), hasher |-> <<>>, hash |-> Some(hash),
              log |-> {}]

\* is_version_unarchived(archived_hashes, hasher, path) in the working
\* directory f, with the hasher holding the bytes h:
\*   open  outcome of File::open
\*   read  NoneOpt when std::io::copy reads the whole file, else Some of the
\*         number of bytes copied into the hasher before a read fails
\* The result is [ret, hasher, hash, log]; hash is the digest looked up.
is_version_unarchived(archived, h, path, f, open, read) ==
    IF open # "ok" \/ ~IsFile(f, path)
    THEN [ret |-> FALSE, hasher |-> h, hash |-> NoneOpt,
          log |-> {"Failed to open file for hash calculations"}]
    ELSE IF IsSome(read)
    THEN [ret |-> FALSE, hasher |-> h \o SubSeq(ReadFile(f, path), 1, Unwrap(read)),
          hash |-> NoneOpt,
          log |-> {"Failed to calculate sha256 hash"}]
    ELSE LET hash == Sha256(h \o ReadFile(f, path))
         IN  [ret |-> ~contains(archived, hash), hasher |-> <<>>, hash |-> Some(hash),
              log |-> {}]

---------------------------------------------------------------------------
(* Sha256Hash and its textual form: the hex crate's encode and decode_to_slice *)

\* the length of Sha256Hash's inner array
HashOctets == 32

\* prefixes of the texts and arrays of the conversion specification that are
\* enumerated in full
MaxHead == 2

\* hex's HEX_CHARS_LOWER
HexCharsLower == <<"0","1","2","3","4","5","6","7","8","9","a","b","c","d","e","f">>
HexCharsUpper == <<"0","1","2","3","4","5","6","7","8","9","A","B","C","D","E","F">>

\* hex::encode with the upper-case table
encode_upper(data) ==
    [i \in 1..(2 * Len(data)) |->
        IF i % 2 = 1 THEN HexCharsUpper[(data[(i + 1) \div 2] \div 16) + 1]
        ELSE HexCharsUpper[(data[i \div 2] % 16) + 1]]

\* hex::encode: two characters per octet, the high nibble first
encode(data) ==
    [i \in 1..(2 * Len(data)) |->
        IF i % 2 = 1 THEN HexCharsLower[(data[(i + 1) \div 2] \div 16) + 1]
        ELSE HexCharsLower[(data[i \div 2] % 16) + 1]]

\* hex's val: the value of a hexadecimal digit of either case
val(c) ==
    IF \E k \in DOMAIN HexCharsLower : HexCharsLower[k] = c
    THEN Some((CHOOSE k \in DOMAIN HexCharsLower : HexCharsLower[k] = c) - 1)
    ELSE IF \E k \in DOMAIN HexCharsUpper : HexCharsUpper[k] = c
    THEN Some((CHOOSE k \in DOMAIN HexCharsUpper : HexCharsUpper[k] = c) - 1)
    ELSE NoneOpt

\* a value of the trail: a text, a Sha256Hash, or the error of a conversion;
\* by names the conversion that made it
Text(by, chars) == [kind |-> "text", by |-> by, chars |-> chars, inner |-> <<>>]
Hash(by, inner) == [kind |-> "hash", by |-> by, chars |-> <<>>, inner |-> inner]
HexError(by, e) == [kind |-> "err", by |-> by, chars |-> e, inner |-> <<>>]

\* hex::decode_to_slice(s, &mut array) followed by Ok(Self::new(array))
decode_to_slice(by, s, len) ==
    IF Len(s) % 2 # 0 THEN HexError(by, <<"OddLength">>)
    ELSE IF Len(s) \div 2 # len THEN HexError(by, <<"InvalidStringLength">>)
    ELSE IF \E i \in DOMAIN s : ~IsSome(val(s[i]))
    THEN HexError(by, <<"InvalidHexCharacter">>)
    ELSE Hash(by, [i \in 1..len |->
                     Unwrap(val(s[2 * i - 1])) * 16 + Unwrap(val(s[2 * i]))])

\* <Sha256Hash as FromStr>::from_str
from_str(s) == decode_to_slice("from_str", s, HashOctets)

\* <Sha256Hash as TryFrom<String>>::try_from
try_from(s) == decode_to_slice("try_from", s, HashOctets)

\* <Sha256Hash as Display>::fmt
fmt(hash) == Text("fmt", encode(hash))

\* <String as From<Sha256Hash>>::from
from(hash) == Text("from", encode(hash))

---------------------------------------------------------------------------
(* Inputs *)

BoundedSeq(S, n) == UNION {[1..k -> S] : k \in 0..n}

\* the sequence head, continued with fill up to the length n
Padded(head, fill, n) == [i \in 1..n |-> IF i <= Len(head) THEN head[i] ELSE fill]

\* characters of the texts parsed: digits of both cases, and "g", which is none
TextChars == {"0", "9", "a", "f", "A", "F", "g"}

\* texts parsed in the conversion specification: short ones, and ones of the
\* length of an encoded digest, or one or two characters off it
Texts ==
    BoundedSeq(TextChars, MaxHead)
    \cup {Padded(head, fill, n) : head \in BoundedSeq(TextChars, MaxHead),
                                  fill \in {"0", "c"},
                                  n \in (2 * HashOctets - 2)..(2 * HashOctets + 2)}

\* Sha256Hash values formatted in the conversion specification
Arrays ==
    {Padded(head, fill, HashOctets) : head \in BoundedSeq({0, 9, 171, 255}, MaxHead),
                                      fill \in {0, 16, 255}}

JarName == Prefix \o <<"1", ".", "j", "a", "r">>
UpperJarName == Prefix \o <<"1", ".", "J", "A", "R">>
MixedJarName == Prefix \o <<"2", ".", "J", "a", "r">>
ZipName == Prefix \o <<"1", ".", "z", "i", "p">>
OtherJarName == <<"o", ".", "j", "a", "r">>
NoExtensionName == Prefix \o <<"1">>
ParentName == <<".", ".", "/">> \o JarName
AbsoluteName == <<"/">> \o JarName
NestedName == <<"s", "u", "b", "/">> \o JarName
BackslashName == <<".", ".", "\\", ".", ".", "\\">> \o UpperJarName

\* entry names of the archives of the retrieval specification
EntryNames == {JarName, UpperJarName, MixedJarName, ZipName, OtherJarName,
               NoExtensionName, ParentName, AbsoluteName, NestedName, BackslashName}

Entry(name, data) == [name |-> name, data |-> data]

\* entries of the archives of the retrieval specification
Entries ==
    {Entry(n, <<1>>) : n \in EntryNames} \cup {Entry(JarName, <<1, 2>>)}

\* response bodies of the retrieval specification
RetrieveBodies == {NotZip} \cup {Zip(e) : e \in BoundedSeq(Entries, MaxEntries)}

\* response bodies of the pipeline specification
PipelineBodies ==
    {NotZip,
     Zip(<<Entry(OtherJarName, <<1>>)>>),
     Zip(<<Entry(JarName, <<1>>)>>),
     Zip(<<Entry(JarName, <<1, 2>>)>>)}

\* entries of the archives of the single-task specification: two of them
\* have the same sanitized name
JoinEntries ==
    {Entry(JarName, <<1>>), Entry(ParentName, <<1, 2>>), Entry(MixedJarName, <<1, 2>>)}

\* response bodies of the single-task specification
JoinBodies == {NotZip} \cup {Zip(e) : e \in BoundedSeq(JoinEntries, MaxEntries)}

\* outcomes of a task's requests and of its entries' I/O in the pipeline
\* specification
PipelineNet == {"ok", "send_err"}
PipelineIo == {"ok"}

Download(id, platforms) == [id |-> id, platforms |-> platforms]

\* itch_io::Download, as far as get_game_jars reads it
Downloads ==
    {Download(Some(9), {"Linux", "Windows"}),
     Download(Some(12), {"Linux", "Windows", "OSX"}),
     Download(NoneOpt, {"Linux", "Windows"})}

GamePages == BoundedSeq(Downloads, MaxDownloads)

\* the game page of the single-task specification: one candidate
JoinPages == {<<Download(Some(9), {"Linux", "Windows"})>>}

\* downloads of the discovery specification: with and without identifier,
\* with both, one or none of the platforms Linux and Windows
DiscoverDownloads ==
    Downloads \cup
    {Download(Some(7), {"Linux"}),
     Download(Some(5), {"Windows", "OSX"}),
     Download(NoneOpt, {})}

DiscoverPages == BoundedSeq(DiscoverDownloads, MaxDownloads)

NotJson == <<"n", "o", "t", " ", "j", "s", "o", "n">>

\* bodies of the manifest response: a versions document, or bytes that are none
ManifestBodies ==
    {[json |-> FALSE, versions |-> <<>>, raw |-> NotJson]}
    \cup {[json |-> TRUE, versions |-> v, raw |-> <<"{", "}">>] :
             v \in {<<>>, <<Sha256(<<1>>)>>, <<Sha256(<<1, 2>>), Sha256(<<1, 2>>)>>}}

\* working directories a run may start in
InitialFs ==
    {EmptyFs,
     [dirs |-> {<<to_string(9)>>}, files |-> <<>>],
     [dirs |-> {<<to_string(9)>>, <<to_string(9), <<"s", "u", "b">>>>}, files |-> <<>>]}

---------------------------------------------------------------------------
(* get_version_hashes, get_game_jars and the try_join! of main *)

\* the records error! writes to standard error for the messages msgs: the
\* message and the bytes of a response body it carries, which is none
Logged(msgs) == {[msg |-> m, bytes |-> <<>>] : m \in msgs}

\* versions.versions.into_iter().map(|it| it.sha256).collect()
hashes(body) == {body.versions[i] : i \in 1..Len(body.versions)}

\* is_jar_platform! satisfied by either platform
is_jar_platform_either(platforms) == "Linux" \in platforms \/ "Windows" \in platforms

is_jar_platform(platforms) == "Linux" \in platforms /\ "Windows" \in platforms

\* the filter_map of get_game_jars over game_page.downloads
IsCandidate(download) == IsSome(download.id) /\ is_jar_platform(download.platforms)

download_ids(downloads) ==
    LET kept == SelectSeq(downloads, IsCandidate)
    IN  [i \in 1..Len(kept) |-> Unwrap(kept[i].id)]

\* a task of the JoinSet, as spawned
Spawned(download_id) ==
    [id |-> download_id, state |-> "running", files |-> <<>>, body |-> NoneOpt,
     selected |-> {}, extracted |-> {}, failed |-> {}, refused |-> {},
     written |-> {}, joined |-> FALSE]

\* try_join! that lets a failed discovery pass
try_join_manifest_only(m, d) ==
    IF m = "err" THEN "Err"
    ELSE IF m = "ok" /\ d \in {"ok", "err"} THEN "Ok"
    ELSE "Pending"

\* try_join! that does not wait for the manifest
try_join_discovery_only(m, d) ==
    IF m = "err" \/ d = "err" THEN "Err"
    ELSE IF d = "ok" THEN "Ok"
    ELSE "Pending"

\* try_join!(join_set, archived_hashes) given the states m of the manifest
\* future and d of the discovery future
try_join(m, d) ==
    IF m = "err" \/ d = "err" THEN "Err"
    ELSE IF m = "ok" /\ d = "ok" THEN "Ok"
    ELSE "Pending"

\* dropping the JoinSet aborts the tasks that have not finished
Abort(tk) ==
    [i \in DOMAIN tk |-> IF tk[i].state = "running"
                         THEN [tk[i] EXCEPT !.state = "cancelled"] ELSE tk[i]]

Drop(future) == IF future = "pending" THEN "dropped" ELSE future

\* main, polled with the manifest future in state m (its output out), the
\* discovery future in state d and the tasks tk
PollMain(m, out, d, tk) ==
    LET res == try_join(m, d)
    IN  /\ main_pc' = CASE res = "Err" -> "done"
                        [] res = "Ok" -> "join_next"
                        [] OTHER -> "try_join"
        /\ exit_code' = IF res = "Err" THEN Some(1) ELSE exit_code
        /\ manifest' = IF res = "Err" THEN Drop(m) ELSE m
        /\ discovery' = IF res = "Err" THEN Drop(d) ELSE d
        /\ tasks' = IF res = "Err" THEN Abort(tk) ELSE tk
        /\ archived_hashes' = IF res = "Ok" THEN out ELSE archived_hashes

ManifestNetErrors ==
    {"Failed to send GET request for archived versions data",
     "Non-success GET response status",
     "Failed to read bytes from GET response"}

\* get_version_hashes runs to its end
GetVersionHashes ==
    /\ main_pc = "try_join"
    /\ manifest = "pending"
    /\ \/ \E e \in ManifestNetErrors :
            /\ manifest_body' = manifest_body
            /\ stderr' = stderr \cup Logged({e})
            /\ stdout' = stdout
            /\ PollMain("err", {}, discovery, tasks)
       \/ \E body \in ManifestBodies :
            /\ manifest_body' = Some(body)
            /\ IF body.json
               THEN /\ stderr' = stderr
                    /\ stdout' = stdout
                    /\ PollMain("ok", hashes(body), discovery, tasks)
               ELSE /\ \E written \in BOOLEAN :
                         /\ stdout' = IF written THEN Append(stdout, body.raw) ELSE stdout
                         /\ stderr' = stderr \cup Logged(
                                {"Failed to deserialize received bytes as valid JSON",
                                 "Dumping bytes to STDOUT..."}
                                \cup (IF written THEN {} ELSE {"Failed to bump the bytes"}))
                    /\ PollMain("err", {}, discovery, tasks)
    /\ UNCHANGED <<game_page, ready, fs, hasher, paths, calls, trail>>

\* get_game_jars runs to its end, the storefront delivering one of Pages
GetGameJars(Pages) ==
    /\ main_pc = "try_join"
    /\ discovery = "pending"
    /\ \/ /\ game_page' = game_page
          /\ stderr' = stderr \cup Logged({"Failed getting game page data"})
          /\ PollMain(manifest, {}, "err", tasks)
       \/ \E page \in Pages :
            /\ game_page' = Some(page)
            /\ stderr' = stderr
            /\ PollMain(manifest,
                        IF manifest = "ok" THEN hashes(Unwrap(manifest_body)) ELSE {},
                        "ok",
                        [i \in 1..Len(download_ids(page)) |-> Spawned(download_ids(page)[i])])
    /\ UNCHANGED <<manifest_body, ready, fs, hasher, paths, stdout, calls, trail>>

---------------------------------------------------------------------------
(* The retrieval tasks *)

\* the task i ends with the result r of download_game_jars, having received
\* the response body received (NoneOpt when a request failed)
Finish(i, received, r) ==
    /\ tasks' = [tasks EXCEPT ![i] =
            [@ EXCEPT !.state = IF r.ret = "Ok" THEN "ok" ELSE "err",
                      !.files = r.files,
                      !.body = received,
                      !.selected = r.selected,
                      !.extracted = r.extracted,
                      !.failed = r.failed,
                      !.refused = r.refused,
                      !.written = r.written]]
    /\ fs' = r.fs
    /\ stderr' = stderr \cup Logged(r.log)
    /\ ready' = Append(ready, i)
    /\ UNCHANGED <<main_pc, exit_code, manifest, manifest_body, archived_hashes,
                   discovery, game_page, hasher, paths, stdout, calls, trail>>

\* the task i runs download_game_jars to its end: its requests end as one of
\* Nets, the response body is one of Bs, the I/O of each entry ends as one of Ios
TaskRun(i, Nets, Bs, Ios) ==
    /\ i \in DOMAIN tasks
    /\ tasks[i].state = "running"
    /\ \/ \E net \in Nets \ {"ok"} :
            Finish(i, NoneOpt, download_game_jars(tasks[i].id, net, "ok", NotZip, <<>>, fs))
       \/ /\ ~Exists(fs, <<to_string(tasks[i].id)>>)
          /\ Finish(i, NoneOpt,
                    download_game_jars(tasks[i].id, "ok", "err", NotZip, <<>>, fs))
       \/ \E body \in Bs :
            \E io \in [1..Len(body.entries) -> Ios] :
               Finish(i, Some(body),
                      download_game_jars(tasks[i].id, "ok", "ok", body, io, fs))

\* the task i panics before it touches the working directory
TaskPanic(i) ==
    /\ i \in DOMAIN tasks
    /\ tasks[i].state = "running"
    /\ tasks' = [tasks EXCEPT ![i].state = "panicked"]
    /\ ready' = Append(ready, i)
    /\ UNCHANGED <<main_pc, exit_code, manifest, manifest_body, archived_hashes,
                   discovery, game_page, fs, hasher, paths, stdout, stderr,
                   calls, trail>>

---------------------------------------------------------------------------
(* main after the try_join! *)

\* the outcomes of the I/O of one is_version_unarchived call on a file
\* holding data: File::open fails, a read fails after k bytes, or all is read
HashOutcomes(data) ==
    {[open |-> "err", read |-> NoneOpt], [open |-> "ok", read |-> NoneOpt]}
    \cup {[open |-> "ok", read |-> Some(k)] : k \in 0..(Len(data) - 1)}

OnDisk(f, path) == IF IsFile(f, path) THEN ReadFile(f, path) ELSE <<>>

\* "for path in files" leaving the loop after its first path
for_path_in_files_first_only(i, files, out, k, acc) ==
    IF k > Len(files) THEN acc
    ELSE
    LET path == files[k]
        r == is_version_unarchived(archived_hashes, acc.hasher, path, fs,
                                   out[k].open, out[k].read)
        call == [task |-> i, path |-> path,
                 read |-> r.hash # NoneOpt, content |-> OnDisk(fs, path),
                 hash |-> r.hash, archived |-> archived_hashes,
                 manifest |-> manifest, discovery |-> discovery, ret |-> r.ret]
    IN  [hasher |-> r.hasher,
         paths |-> IF r.ret THEN Append(acc.paths, path) ELSE acc.paths,
         log |-> acc.log \cup r.log,
         calls |-> Append(acc.calls, call)]

\* "for path in files" of main for the files of task i, from the k-th on:
\* acc = [hasher, paths, log, calls], out[k] the outcome of the k-th call's I/O
RECURSIVE for_path_in_files(_, _, _, _, _)
for_path_in_files(i, files, out, k, acc) ==
    IF k > Len(files) THEN acc
    ELSE
    LET path == files[k]
        r == is_version_unarchived(archived_hashes, acc.hasher, path, fs,
                                   out[k].open, out[k].read)
        call == [task |-> i, path |-> path,
                 read |-> r.hash # NoneOpt, content |-> OnDisk(fs, path),
                 hash |-> r.hash, archived |-> archived_hashes,
                 manifest |-> manifest, discovery |-> discovery, ret |-> r.ret]
    IN  for_path_in_files(i, files, out, k + 1,
            [hasher |-> r.hasher,
             paths |-> IF r.ret THEN Append(acc.paths, path) ELSE acc.paths,
             log |-> acc.log \cup r.log,
             calls |-> Append(acc.calls, call)])

\* join_set.join_next().await returns the next finished task, and main
\* handles its result
JoinNext ==
    /\ main_pc = "join_next"
    /\ ready # <<>>
    /\ LET i == Head(ready)
           files == IF tasks[i].state = "ok" THEN tasks[i].files ELSE <<>>
       IN  /\ ready' = Tail(ready)
           /\ tasks' = [tasks EXCEPT ![i].joined = TRUE]
           /\ \E out \in [1..Len(files) -> UNION {HashOutcomes(OnDisk(fs, files[k])) :
                                                    k \in 1..Len(files)}] :
                /\ \A k \in 1..Len(files) : out[k] \in HashOutcomes(OnDisk(fs, files[k]))
                /\ LET acc == for_path_in_files(i, files, out, 1,
                                 [hasher |-> hasher, paths |-> paths, log |-> {},
                                  calls |-> calls])
                   IN  /\ hasher' = acc.hasher
                       /\ paths' = acc.paths
                       /\ calls' = acc.calls
                       /\ stderr' = stderr \cup Logged(acc.log \cup
                              (IF tasks[i].state = "panicked"
                               THEN {"Unexpected join error"} ELSE {}))
    /\ UNCHANGED <<main_pc, exit_code, manifest, manifest_body, archived_hashes,
                   discovery, game_page, fs, stdout, trail>>

\* println!("{}", path.display())
Line(path) == display(path) \o <<"\n">>

\* join_next returns None: main prints paths and returns Ok(())
PrintPaths ==
    /\ main_pc = "join_next"
    /\ \A i \in DOMAIN tasks : tasks[i].joined
    /\ stdout' = stdout \o [k \in 1..Len(paths) |-> Line(paths[k])]
    /\ main_pc' = "done"
    /\ exit_code' = Some(0)
    /\ UNCHANGED <<manifest, manifest_body, archived_hashes, discovery, game_page,
                   tasks, ready, fs, hasher, paths, stderr, calls, trail>>

---------------------------------------------------------------------------
(* Specifications *)

Init ==
    /\ main_pc = "try_join"
    /\ exit_code = NoneOpt
    /\ manifest = "pending"
    /\ manifest_body = NoneOpt
    /\ archived_hashes = {}
    /\ discovery = "pending"
    /\ game_page = NoneOpt
    /\ tasks = <<>>
    /\ ready = <<>>
    /\ fs = EmptyFs
    /\ hasher = <<>>
    /\ paths = <<>>
    /\ stdout = <<>>
    /\ stderr = {}
    /\ calls = <<>>
    /\ trail = <<>>

Next ==
    \/ GetVersionHashes
    \/ GetGameJars(GamePages)
    \/ \E i \in DOMAIN tasks : TaskRun(i, PipelineNet, PipelineBodies, PipelineIo)
    \/ \E i \in DOMAIN tasks : TaskPanic(i)
    \/ JoinNext
    \/ PrintPaths

\* the whole pipeline
Spec == Init /\ [][Next]_vars

\* one retrieval task, spawned for the one candidate of the game page, in a
\* working directory that earlier runs may have left
InitRetrieve ==
    /\ main_pc = "join_next"
    /\ exit_code = NoneOpt
    /\ manifest = "ok"
    /\ manifest_body \in {Some(b) : b \in {m \in ManifestBodies : m.json /\ m.versions = <<>>}}
    /\ archived_hashes = {}
    /\ discovery = "ok"
    /\ game_page \in {Some(<<d>>) : d \in {c \in Downloads : IsCandidate(c)}}
    /\ tasks = [i \in 1..1 |-> Spawned(download_ids(Unwrap(game_page))[i])]
    /\ ready = <<>>
    /\ fs \in InitialFs
    /\ hasher = <<>>
    /\ paths = <<>>
    /\ stdout = <<>>
    /\ stderr = {}
    /\ calls = <<>>
    /\ trail = <<>>

NextRetrieve == \E i \in DOMAIN tasks : TaskRun(i, NetOutcomes, RetrieveBodies, EntryOutcomes)

\* download_game_jars alone, over every archive of the bounds
SpecRetrieve == InitRetrieve /\ [][NextRetrieve]_vars

NextJoin ==
    \/ GetVersionHashes
    \/ GetGameJars(JoinPages)
    \/ \E i \in DOMAIN tasks : TaskRun(i, PipelineNet, JoinBodies, PipelineIo)
    \/ \E i \in DOMAIN tasks : TaskPanic(i)
    \/ JoinNext
    \/ PrintPaths

\* the whole pipeline for a game page with one candidate, over every archive
\* of the bounds
SpecJoin == Init /\ [][NextJoin]_vars

\* main up to its try_join!, over every game page of the bounds
NextDiscover ==
    \/ GetVersionHashes
    \/ GetGameJars(DiscoverPages)

SpecDiscover == Init /\ [][NextDiscover]_vars

\* the last value of the trail is parsed with from_str
FromStr ==
    /\ Len(trail) < 3
    /\ trail[Len(trail)].kind = "text"
    /\ trail' = Append(trail, from_str(trail[Len(trail)].chars))
    /\ UNCHANGED <<main_pc, exit_code, manifest, manifest_body, archived_hashes,
                   discovery, game_page, tasks, ready, fs, hasher, paths, stdout,
                   stderr, calls>>

\* the last value of the trail is converted with try_from, as serde does
\* for a sha256 field
TryFrom ==
    /\ Len(trail) < 3
    /\ trail[Len(trail)].kind = "text"
    /\ trail' = Append(trail, try_from(trail[Len(trail)].chars))
    /\ UNCHANGED <<main_pc, exit_code, manifest, manifest_body, archived_hashes,
                   discovery, game_page, tasks, ready, fs, hasher, paths, stdout,
                   stderr, calls>>

\* the last value of the trail is formatted with Display
Fmt ==
    /\ Len(trail) < 3
    /\ trail[Len(trail)].kind = "hash"
    /\ trail' = Append(trail, fmt(trail[Len(trail)].inner))
    /\ UNCHANGED <<main_pc, exit_code, manifest, manifest_body, archived_hashes,
                   discovery, game_page, tasks, ready, fs, hasher, paths, stdout,
                   stderr, calls>>

\* the last value of the trail is converted into a String
From ==
    /\ Len(trail) < 3
    /\ trail[Len(trail)].kind = "hash"
    /\ trail' = Append(trail, from(trail[Len(trail)].inner))
    /\ UNCHANGED <<main_pc, exit_code, manifest, manifest_body, archived_hashes,
                   discovery, game_page, tasks, ready, fs, hasher, paths, stdout,
                   stderr, calls>>

\* a text or a Sha256Hash at hand before main has taken a step
InitDigest ==
    /\ main_pc = "try_join"
    /\ exit_code = NoneOpt
    /\ manifest = "pending"
    /\ manifest_body = NoneOpt
    /\ archived_hashes = {}
    /\ discovery = "pending"
    /\ game_page = NoneOpt
    /\ tasks = <<>>
    /\ ready = <<>>
    /\ fs = EmptyFs
    /\ hasher = <<>>
    /\ paths = <<>>
    /\ stdout = <<>>
    /\ stderr = {}
    /\ calls = <<>>
    /\ trail \in {<<Text("input", t)>> : t \in Texts}
                  \cup {<<Hash("input", a)>> : a \in Arrays}

NextDigest ==
    \/ FromStr
    \/ TryFrom
    \/ Fmt
    \/ From

\* the conversions between Sha256Hash and its textual form
SpecDigest == InitDigest /\ [][NextDigest]_vars

---------------------------------------------------------------------------
(* Properties *)

Done == main_pc = "done"
Succeeded == Done /\ exit_code = Some(0)

\* the digests the fetched manifest lists
FetchedSet ==
    {d \in {Sha256(<<1>>), Sha256(<<1, 2>>)} :
        \E k \in DOMAIN Unwrap(manifest_body).versions :
            Unwrap(manifest_body).versions[k] = d}

\* the calls is_version_unarchived got for the files of task i
CallsOf(i) == SelectSeq(calls, LAMBDA c : c.task = i)

PathsOf(cs) == [k \in DOMAIN cs |-> cs[k].path]

\* the stdout lines of a sequence of calls
LinesOf(cs) == [k \in DOMAIN cs |-> display(cs[k].path) \o <<"\n">>]

\* the file of the call was read in full and its digest is not in the manifest
IsFresh(c) == c.read /\ Sha256(c.content) \notin FetchedSet

\* C1: when the manifest fetch and discovery succeed and every extracted file
\* can be read, the paths on stdout are exactly the paths returned by the
\* retrieval tasks that finished successfully whose file's SHA-256 digest is
\* not in the manifest digest set.
C1_HashFiltering ==
    (Succeeded /\ \A k \in DOMAIN calls : calls[k].read) =>
        /\ \A i \in DOMAIN tasks :
              PathsOf(CallsOf(i)) = IF tasks[i].state = "ok" THEN tasks[i].files ELSE <<>>
        /\ stdout = LinesOf(SelectSeq(calls, LAMBDA c : Sha256(c.content) \notin FetchedSet))

\* a run that printed the path of a fresh file and held back an archived one
C1_Witness ==
    /\ Succeeded
    /\ \A k \in DOMAIN calls : calls[k].read
    /\ \E k \in DOMAIN calls : Sha256(calls[k].content) \in FetchedSet
    /\ \E k \in DOMAIN calls : Sha256(calls[k].content) \notin FetchedSet
    /\ Len(stdout) = 1

\* C2: every digest looked up in the manifest set is the digest of exactly the
\* full content of the file passed to that call, whatever happened in the
\* earlier calls.
C2_DigestOfFullContent ==
    \A k \in DOMAIN calls :
        IsSome(calls[k].hash) => Unwrap(calls[k].hash) = Sha256(calls[k].content)

\* C3: when the manifest fetch or the discovery fails, main returns an error,
\* no digest is compared and no extracted path is printed.
C3_EitherFailureFailsRun ==
    (manifest = "err" \/ discovery = "err") =>
        /\ Done
        /\ exit_code = Some(1)
        /\ calls = <<>>
        /\ paths = <<>>
        /\ \A k \in DOMAIN stdout : \A i \in DOMAIN tasks :
              \A p \in tasks[i].written : stdout[k] # display(p) \o <<"\n">>

\* the manifest fetch failed after discovery had spawned a task that finished
C3_Witness ==
    /\ manifest = "err"
    /\ discovery = "ok"
    /\ \E i \in DOMAIN tasks : tasks[i].state = "ok" /\ tasks[i].files # <<>>

\* C4: when the manifest fetch and discovery succeed (and the identifiers
\* differ) the run ends with exit status 0 whatever the tasks' outcomes, and
\* whether a path a task returned
\* is printed is decided by that file alone: it is printed iff it can be read
\* and its digest is not in the manifest.
C4_TasksIndependent ==
    (/\ Done /\ manifest = "ok" /\ discovery = "ok"
     /\ \A i, j \in DOMAIN tasks : tasks[i].id = tasks[j].id => i = j) =>
        /\ exit_code = Some(0)
        /\ stdout = LinesOf(SelectSeq(calls, IsFresh))

\* C5: main has not returned while a spawned task is unfinished, and no task
\* is cancelled.
C5_NoTaskCancelled ==
    \A i \in DOMAIN tasks :
        /\ tasks[i].state # "cancelled"
        /\ Done => tasks[i].state \in {"ok", "err", "panicked"}

\* C6: every write to stdout is the line of an extracted path.
C6_StdoutOnlyPaths ==
    \A k \in DOMAIN stdout :
        \E i \in DOMAIN tasks : \E j \in DOMAIN tasks[i].files :
            stdout[k] = display(tasks[i].files[j]) \o <<"\n">>

\* C7: when the manifest body is no valid manifest document,
\* get_version_hashes fails and the raw body is on stderr.
C7_RawBodyOnStderr ==
    (IsSome(manifest_body) /\ ~Unwrap(manifest_body).json) =>
        /\ manifest = "err"
        /\ \E e \in stderr : e.bytes = Unwrap(manifest_body).raw

\* C8: the manifest fetch and the discovery have both succeeded before the
\* first call of is_version_unarchived, and every call is given the whole
\* fetched digest set.
C8_JoinBarrier ==
    /\ \A k \in DOMAIN calls :
          /\ calls[k].manifest = "ok"
          /\ calls[k].discovery = "ok"
          /\ calls[k].archived = FetchedSet
    /\ main_pc = "join_next" =>
          manifest = "ok" /\ discovery = "ok" /\ archived_hashes = FetchedSet

\* a comparison against a manifest that lists a digest
C8_Witness ==
    /\ calls # <<>>
    /\ FetchedSet # {}
    /\ \E k \in DOMAIN calls : ~calls[k].ret /\ calls[k].read

JarCaseVariants ==
    {<<j, a, r>> : j \in {"j", "J"}, a \in {"a", "A"}, r \in {"r", "R"}}

\* the selection rule of the specification on an entry name
SelectionRule(name) ==
    LET relative == mangled_name(name)
    IN  /\ relative # <<>>
        /\ Len(relative[Len(relative)]) >= Len(Prefix)
        /\ \A k \in DOMAIN Prefix : relative[Len(relative)][k] = Prefix[k]
        /\ \E ext \in JarCaseVariants : extension(relative) = Some(ext)

Under(at, dir) ==
    /\ Len(at) > Len(dir)
    /\ SubSeq(at, 1, Len(dir)) = dir
    /\ \A k \in DOMAIN at : at[k] \notin {<<>>, Dot, DotDot, Root}

InitialDirs == UNION {f.dirs : f \in InitialFs}

\* C10: every file or directory a task creates or writes is the directory
\* named after its download identifier or lies under it.
C10_PathSafety ==
    /\ \A i \in DOMAIN tasks : \A at \in tasks[i].written :
          at = <<to_string(tasks[i].id)>> \/ Under(at, <<to_string(tasks[i].id)>>)
    /\ \A at \in (DOMAIN fs.files) \cup (fs.dirs \ InitialDirs) :
          \E i \in DOMAIN tasks :
              at = <<to_string(tasks[i].id)>> \/ Under(at, <<to_string(tasks[i].id)>>)

\* an entry with a parent-relative or absolute name was extracted
C10_Witness ==
    \E i \in DOMAIN tasks :
        /\ tasks[i].state = "ok"
        /\ \E k \in tasks[i].extracted :
              Unwrap(tasks[i].body).entries[k].name \in {ParentName, BackslashName}
        /\ \E k \in tasks[i].extracted :
              Unwrap(tasks[i].body).entries[k].name = AbsoluteName

\* the entries of the archive task i received have different names
DistinctNames(i) ==
    IsSome(tasks[i].body) =>
        \A a, b \in DOMAIN Unwrap(tasks[i].body).entries :
            Unwrap(tasks[i].body).entries[a].name = Unwrap(tasks[i].body).entries[b].name
                => a = b

\* no line is written twice to stdout
NoLineTwice == \A a, b \in DOMAIN stdout : stdout[a] = stdout[b] => a = b

\* C11: no path appears twice among the paths the retrieval tasks of a run
\* return, whatever the (differently named) entries of their archives, and
\* no path is printed twice.
C11_PathsUnique ==
    (\A i \in DOMAIN tasks : DistinctNames(i)) =>
        /\ \A i, j \in DOMAIN tasks :
              \A a \in DOMAIN tasks[i].files : \A b \in DOMAIN tasks[j].files :
                 tasks[i].files[a] = tasks[j].files[b] => (i = j /\ a = b)
        /\ NoLineTwice

\* C12: the locations two tasks of a run create or write are disjoint, for
\* every identifier sequence discovery produces.
C12_TasksDisjoint ==
    \A i, j \in DOMAIN tasks :
        i # j => tasks[i].written \cap tasks[j].written = {}

\* the call returned true
Returned(c) == c.ret

\* C13: a call of is_version_unarchived whose file cannot be opened or read to
\* its end returns false, whether or not the digest of the file is in the
\* manifest, and its path is not printed: the paths kept and the lines printed
\* are those of the calls that returned true.
C13_IoFailureReturnsFalse ==
    /\ \A k \in DOMAIN calls : ~calls[k].read => ~calls[k].ret
    /\ paths = PathsOf(SelectSeq(calls, Returned))
    /\ Succeeded => stdout = LinesOf(SelectSeq(calls, Returned))

\* a run that ended after an unarchived file could not be hashed and an
\* archived file could not be hashed, the last failure being a failed read
C13_Witness ==
    /\ Succeeded
    /\ hasher # <<>>
    /\ \E k \in DOMAIN calls :
          ~calls[k].read /\ ~calls[k].ret /\ Sha256(calls[k].content) \notin FetchedSet
    /\ \E k \in DOMAIN calls :
          ~calls[k].read /\ ~calls[k].ret /\ Sha256(calls[k].content) \in FetchedSet
    /\ stdout = <<>>

\* the identifiers of the downloads that have one and that list both Linux and
\* Windows, in the order of the list
RECURSIVE CandidateIds(_)
CandidateIds(downloads) ==
    IF downloads = <<>> THEN <<>>
    ELSE LET d == Head(downloads)
         IN  (IF d.id # NoneOpt /\ {"Linux", "Windows"} \subseteq d.platforms
              THEN <<d.id[1]>> ELSE <<>>) \o CandidateIds(Tail(downloads))

\* C14: discovery fails iff the storefront client fails; otherwise the tasks
\* are spawned for exactly the identifiers of the downloads of the page that
\* have an identifier and list both Linux and Windows, in page order.
C14_Discovery ==
    /\ discovery = "err" <=>
          \E e \in stderr : e.msg = "Failed getting game page data"
    /\ discovery = "err" => (game_page = NoneOpt /\ tasks = <<>> /\ exit_code = Some(1))
    /\ IsSome(game_page) <=> discovery = "ok"
    /\ discovery = "ok" =>
          [i \in DOMAIN tasks |-> tasks[i].id] = CandidateIds(Unwrap(game_page))
    /\ discovery \notin {"ok", "err"} => tasks = <<>>

\* a page with a download that has no identifier, or one for Linux alone,
\* next to a candidate: one task is spawned
C14_Witness ==
    /\ discovery = "ok"
    /\ Len(Unwrap(game_page)) = 2
    /\ Len(tasks) = 1
    /\ Unwrap(game_page)[1].platforms = {"Linux"}
    /\ IsSome(Unwrap(game_page)[1].id)
    /\ tasks[1].id = Unwrap(Unwrap(game_page)[2].id)

LowerHexDigits ==
    {"0", "1", "2", "3", "4", "5", "6", "7", "8", "9", "a", "b", "c", "d", "e", "f"}

\* a text of 64 lower-case hexadecimal digits
IsLowerHex64(t) == Len(t) = 64 /\ \A i \in DOMAIN t : t[i] \in LowerHexDigits

\* C15: formatting a 32-octet digest and parsing the text gives the digest
\* back; parsing a text of 64 lower-case hexadecimal digits succeeds and
\* formatting the digest parsed gives the text back.
C15_RoundTrip ==
    /\ (Len(trail) >= 2 /\ trail[1].kind = "hash") =>
          /\ trail[2].kind = "text"
          /\ IsLowerHex64(trail[2].chars)
          /\ Len(trail) = 3 => (trail[3].kind = "hash" /\ trail[3].inner = trail[1].inner)
    /\ (Len(trail) >= 2 /\ trail[1].kind = "text" /\ IsLowerHex64(trail[1].chars)) =>
          /\ trail[2].kind = "hash"
          /\ Len(trail) = 3 => (trail[3].kind = "text" /\ trail[3].chars = trail[1].chars)

\* a text with digits and letters was parsed and formatted back
C15_Witness ==
    /\ Len(trail) = 3
    /\ trail[1].kind = "text"
    /\ IsLowerHex64(trail[1].chars)
    /\ trail[1].chars[1] = "f"
    /\ trail[1].chars[2] = "9"
    /\ trail[2].kind = "hash"
    /\ trail[2].inner[1] = 249
    /\ trail[3].chars = trail[1].chars

\* C16: parsing a text that is not 64 lower-case hexadecimal digits yields an
\* error.
C16_RejectsOtherTexts ==
    (Len(trail) >= 2 /\ trail[1].kind = "text" /\ ~IsLowerHex64(trail[1].chars)) =>
        trail[2].kind = "err"

\* the task i has opened the response body as an archive
Opened(i) == IsSome(tasks[i].body) /\ Unwrap(tasks[i].body).zip

\* the indices in S of the first n entries, in ascending order
RECURSIVE Ascending(_, _)
Ascending(S, n) ==
    IF n = 0 THEN <<>>
    ELSE Ascending(S, n - 1) \o (IF n \in S THEN <<n>> ELSE <<>>)

\* the destination of the k-th entry of the archive of task i
Destination(i, k) ==
    <<to_string(tasks[i].id)>> \o mangled_name(Unwrap(tasks[i].body).entries[k].name)

C18_OpenBeforeMkdir ==
    \A i \in DOMAIN tasks :
        tasks[i].state = "err" => tasks[i].written = {}

\* C19: in a working directory where the directory of the identifier did not
\* exist, File::create refuses no selected entry, whatever directories the
\* entry's sanitized name goes through: the entry is extracted and returned
\* unless its I/O fails.
C19_NestedEntryExtracted ==
    \A i \in DOMAIN tasks :
        (tasks[i].state = "ok" /\ <<to_string(tasks[i].id)>> \in tasks[i].written) =>
            \A k \in tasks[i].selected :
                /\ k \notin tasks[i].refused
                /\ k \in tasks[i].extracted =>
                      /\ \E j \in DOMAIN tasks[i].files : tasks[i].files[j] = Destination(i, k)
                      /\ IsFile(fs, Destination(i, k))

\* only the step of main that joins a task changes the hasher or makes a
\* call of is_version_unarchived, and a step that ends a task does neither
HasherOwnedByMain ==
    /\ (hasher' # hasher \/ calls' # calls) =>
          (main_pc = "join_next" /\ ready # <<>> /\ ready' = Tail(ready))
    /\ (\E i \in DOMAIN tasks : tasks[i].state = "running"
            /\ i \in DOMAIN tasks' /\ tasks'[i].state # "running") =>
          (hasher' = hasher /\ calls' = calls)

\* every path of the list a joined task returned has had its one call, in
\* the order of the list; no other call was made, and none before the
\* try_join! of main returned
EachPathOnce ==
    /\ \A i \in DOMAIN tasks :
          PathsOf(CallsOf(i)) =
              IF tasks[i].joined /\ tasks[i].state = "ok" THEN tasks[i].files ELSE <<>>
    /\ \A k \in DOMAIN calls : calls[k].task \in DOMAIN tasks
    /\ \A k \in DOMAIN calls : calls[k].manifest = "ok" /\ calls[k].discovery = "ok"
    /\ calls # <<>> => main_pc # "try_join"

\* C20: every element of the list of a successfully joined task is passed to
\* is_version_unarchived exactly once, by main, after the join barrier; the
\* hasher is touched by no step of a retrieval task.
C20_EachPathHashedOnce == []EachPathOnce /\ [][HasherOwnedByMain]_vars

\* a task that returned two different paths was joined and both were hashed
C20_Witness ==
    /\ Succeeded
    /\ Len(calls) = 2
    /\ calls[1].path # calls[2].path
    /\ calls[1].task = calls[2].task
    /\ calls[1].read /\ calls[2].read

====
